---------------------------- MODULE Spec2Model ----------------------------
(***************************************************************************)
(* Model of onedrive_migrate_cli.py: main() builds a plan with             *)
(* plan_with_diff (tree walk, vault exclusion, filters, target diff) and,  *)
(* for the copy and move commands, runs execute over it (folder creation,  *)
(* download, small or chunked upload, move-mode delete, resume cache).     *)
(* The two drives are modelled by their contents; every network call is a  *)
(* step that the service may answer with an error.                         *)
(*                                                                         *)
(* Names are sequences of one-character strings, paths are sequences of    *)
(* names (pathlib parts); "" and "." are the empty path.  Sizes are bytes. *)
(***************************************************************************)
EXTENDS Integers, Sequences, FiniteSets, TLC

VARIABLES
    src,        \* source drive: set of item records (a snapshot, never mutated)
    srcGone,    \* ids of source items deleted by gdelete
    vaults,     \* ids of the source items that are protected vaults (ground truth)
    tgtFolders, \* target drive: paths of the folders
    tgtFiles,   \* target drive: set of [path, size, origin]; origin = source id or 0
    cfg,        \* command line: cmd, skip_identicals, cache_path, conflict, roots, filters
    pc,         \* position of the program
    queue,      \* plan_with_diff: work queue of source paths
    src_rel,    \* plan_with_diff: path popped from the queue
    items,      \* list_children: items accumulated so far
    nextLink,   \* list_children: number of the next page to fetch, 0 when none
    k,          \* plan_with_diff: index in items of the next child
    plan,       \* list of actions
    stats,      \* planning counters
    tcache,     \* target_lookup memo: path -> {} (None) or {size}
    listed,     \* source paths list_children has been called for
    cacheFile,  \* the resume-cache file on disk: [exists, valid, ids]
    cache,      \* execute: cache["processed_ids"], the in-memory list
    processed,  \* execute: the set built from the loaded cache
    summary,    \* execute: counters
    i,          \* execute: index in plan of the current action
    ef,         \* ensure_folder: [parts, j, ret]
    reader,     \* bytes left in the download stream
    start,      \* upload_large: running offset
    run,        \* number of the current call of execute
    startIds,   \* ids the cache file held when the current run loaded it
    log,        \* history: [run, i, op] for every call issued and every step
                \* completed (commit, counted, ensured, skip_same, saved)
    attempt,    \* gget: the loop index i of line 37 for the call in progress
    raised,     \* history: [op, status, attempts] for every error status that
                \* was surfaced as an exception
    up          \* history of the last upload_large call: the length of the
                \* stream it was given and its chunk calls [from, to, total, answer]

planVars == <<queue, src_rel, items, nextLink, k, plan, stats, tcache, listed>>
envVars  == <<src, vaults, cfg>>
tgtVars  == <<tgtFolders, tgtFiles>>
callVars == <<attempt, raised, up>>
execVars == <<cacheFile, cache, processed, summary, i, ef, reader, start, run,
              startIds, log, srcGone>>
vars == <<src, srcGone, vaults, tgtFolders, tgtFiles, cfg, pc, queue, src_rel, items,
          nextLink, k, plan, stats, tcache, listed, cacheFile, cache, processed,
          summary, i, ef, reader, start, run, startIds, log, attempt, raised, up>>

-----------------------------------------------------------------------------
(* Bounds *)

MaxNodes == 3      \* items of a generated source tree
PageSize == 2      \* items per listing page returned by the service
MaxRuns  == 2      \* calls of execute on the same plan and cache path

-----------------------------------------------------------------------------
(* Characters and names *)

UpperChars == <<"A","B","C","D","E","F","G","H","I","J","K","L","M",
                "N","O","P","Q","R","S","T","U","V","W","X","Y","Z">>
LowerChars == <<"a","b","c","d","e","f","g","h","i","j","k","l","m",
                "n","o","p","q","r","s","t","u","v","w","x","y","z">>
Digits == <<"1","2","3","4","5","6","7","8","9">>

\* str.lower() on one character
LowerChar(c) ==
    IF \E n \in 1..26 : UpperChars[n] = c
    THEN LowerChars[CHOOSE n \in 1..26 : UpperChars[n] = c]
    ELSE c

\* str.lower()
Lower(s) == [n \in 1..Len(s) |-> LowerChar(s[n])]

\* str.endswith
EndsWith(s, e) ==
    /\ Len(e) <= Len(s)
    /\ SubSeq(s, Len(s) - Len(e) + 1, Len(s)) = e

N_docs     == <<"d","o","c","s">>
N_sub      == <<"s","u","b">>
N_a_txt    == <<"a",".","t","x","t">>
N_big_bin  == <<"b","i","g",".","b","i","n">>
N_mid_bin  == <<"m","i","d",".","b","i","n">>
N_secret   == <<"s","e","c","r","e","t",".","t","x","t">>
N_Vault    == <<"V","a","u","l","t">>
N_vault    == <<"v","a","u","l","t">>
N_personal == <<"p","e","r","s","o","n","a","l"," ","v","a","u","l","t">>
N_Personal == <<"P","e","r","s","o","n","a","l"," ","V","a","u","l","t">>
N_VAULT    == <<"V","A","U","L","T">>
N_PERSONAL == <<"P","E","R","S","O","N","A","L"," ","V","A","U","L","T">>
N_backup   == <<"b","a","c","k","u","p">>

MiB == 1024 * 1024

\* CHUNK, line 15
CHUNK == 32 * 1024 * 1024
\* the small/large threshold of execute, line 192
SMALL_LIMIT == 4 * 1024 * 1024
\* gget's retry parameter, line 35: the number of attempts of one call
RETRY == 5


-----------------------------------------------------------------------------
(* Paths *)

\* pathlib.Path(p).parent; the parent of a one-part path is ".", which has no parts
Parent(p) == IF Len(p) = 0 THEN <<>> ELSE SubSeq(p, 1, Len(p) - 1)

\* pathlib.Path(p).name
BaseName(p) == IF Len(p) = 0 THEN <<>> ELSE p[Len(p)]

\* p is q or lies beneath q
AtOrBeneath(p, q) == Len(q) <= Len(p) /\ SubSeq(p, 1, Len(q)) = q

Min(a, b) == IF a <= b THEN a ELSE b

-----------------------------------------------------------------------------
(* The source drive as the service presents it *)

RECURSIVE PathOf(_, _)
\* path of an item of drive S, from the drive root
PathOf(S, it) ==
    IF it.parent = 0 THEN <<it.name>>
    ELSE Append(PathOf(S, CHOOSE q \in S : q.id = it.parent), it.name)

\* GET root:/p:/children answers 200 only for the root or an existing folder
FolderAt(S, p) == p = <<>> \/ \E it \in S : it.folder /\ PathOf(S, it) = p

RECURSIVE SortById(_)
SortById(S) ==
    IF S = {} THEN <<>>
    ELSE LET lo == CHOOSE x \in S : \A y \in S : x.id <= y.id
         IN  <<lo>> \o SortById(S \ {lo})

\* the children of path p, in the order the service lists them
ChildrenOf(S, p) ==
    SortById({it \in S : Parent(PathOf(S, it)) = p})

\* page n (1-based) of the listing of p: its items and whether a nextLink follows
ListingPage(S, p, n) ==
    LET ch == ChildrenOf(S, p)
    IN  [value |-> SubSeq(ch, (n - 1) * PageSize + 1, Min(n * PageSize, Len(ch))),
         more  |-> n * PageSize < Len(ch)]

-----------------------------------------------------------------------------
(* The target drive as the service presents it *)

\* GET root:/p on the target: {} for 404, else the size the service reports
TargetMeta(p) ==
    IF \E f \in tgtFiles : f.path = p
    THEN {(CHOOSE f \in tgtFiles : f.path = p).size}
    ELSE IF p \in tgtFolders THEN {0} ELSE {}

-----------------------------------------------------------------------------
(* Pure functions of the program *)

\* is_vault, with the specialFolder clause dropped
is_vault_name_only(item) ==
    Lower(item.name) \in {N_personal, N_vault}

\* is_vault, lines 79-81
is_vault(item) ==
    \/ item.special # "none" /\ item.special = "vault"
    \/ Lower(item.name) \in {N_personal, N_vault}

\* apply_filters with exclusive bounds and a case-sensitive extension test
apply_filters_exclusive(item, filters) ==
    IF item.folder THEN TRUE
    ELSE IF filters.exts # {} /\ ~ \E e \in filters.exts : EndsWith(item.name, e)
         THEN FALSE
    ELSE IF filters.modified_after # {} /\ item.lm.kind = "ok"
            /\ \E m \in filters.modified_after : item.lm.t <= m
         THEN FALSE
    ELSE IF \E m \in filters.min_bytes : item.size <= m THEN FALSE
    ELSE IF \E m \in filters.max_bytes : item.size >= m THEN FALSE
    ELSE TRUE

\* apply_filters, lines 127-140.  An optional value is a set: {} is None.
\* lm.kind is "none" (absent), "bad" (fromisoformat raises) or "ok".
apply_filters(item, filters) ==
    IF item.folder THEN TRUE
    ELSE IF filters.exts # {}
            /\ ~ \E e \in filters.exts : EndsWith(Lower(item.name), Lower(e))
         THEN FALSE
    ELSE IF filters.modified_after # {} /\ item.lm.kind = "ok"
            /\ \E m \in filters.modified_after : item.lm.t < m
         THEN FALSE
    ELSE IF \E m \in filters.min_bytes : item.size < m THEN FALSE
    ELSE IF \E m \in filters.max_bytes : item.size > m THEN FALSE
    ELSE TRUE

\* rel_src of a listed child, line 148
RelSrc(dir, item) == Append(dir, item.name)

\* rel_tgt_folder, line 152: the target root joined with the folder's own name
FolderTarget(target_root, rel_src) == Append(target_root, BaseName(rel_src))

\* rel_tgt, line 157: the target root joined with the whole source path
FileTarget(target_root, rel_src) == target_root \o rel_src

Act(type, source, target, size, id, status) ==
    [type |-> type, source |-> source, target |-> target,
     size |-> size, id |-> id, status |-> status]

ZeroStats ==
    [folders |-> 0, files |-> 0, bytes |-> 0, skipped_vault |-> 0,
     skip_existing_same |-> 0, existing_diff |-> 0, not_present |-> 0]

\* target_lookup, lines 116-121: the memoised answer for rel_path
target_lookup(rel_path, memo) ==
    IF rel_path \in DOMAIN memo THEN memo[rel_path] ELSE TargetMeta(rel_path)

\* the diff status of a file of the given size, lines 159-166
DiffStatus(tgt, size) ==
    IF tgt = {} THEN "not_present"
    ELSE IF \E ts \in tgt : ts = size THEN "exists_same"
    ELSE "exists_different"

-----------------------------------------------------------------------------
(* plan_with_diff, lines 142-169, one step per network call or child *)

\* the child at index k needs a target metadata lookup over the network
NeedsLookup(item) ==
    /\ ~ is_vault(item)
    /\ ~ item.folder
    /\ apply_filters(item, cfg.filters)
    /\ FileTarget(cfg.target_root, RelSrc(src_rel, item)) \notin DOMAIN tcache

\* while queue: (src_rel,) = queue.pop()
PlanPop ==
    /\ pc = "plan"
    /\ queue # <<>>
    /\ src_rel' = queue[Len(queue)]
    /\ queue' = SubSeq(queue, 1, Len(queue) - 1)
    /\ items' = <<>>
    /\ nextLink' = 1
    /\ listed' = listed \cup {queue[Len(queue)]}
    /\ pc' = "list"
    /\ UNCHANGED <<k, plan, stats, tcache>>
    /\ UNCHANGED <<envVars, tgtVars, execVars>>
    /\ UNCHANGED callVars

\* a listing that stops after its first page
HasNextNever(pg) == FALSE

\* line 75: the page carries an @odata.nextLink
HasNext(pg) == pg.more

\* list_children, lines 68-77: one page per step, following nextLink
ListPage ==
    /\ pc = "list"
    /\ LET ok   == FolderAt(src, src_rel)
           pg   == ListingPage(src, src_rel, nextLink)
           all  == IF ok THEN items \o pg.value ELSE items
           more == ok /\ HasNext(pg)
       IN  /\ items' = all
           /\ nextLink' = IF more THEN nextLink + 1 ELSE 0
           /\ k' = 1
           /\ pc' = IF more THEN "list" ELSE IF all = <<>> THEN "plan" ELSE "items"
    /\ UNCHANGED <<queue, src_rel, plan, stats, tcache, listed>>
    /\ UNCHANGED <<envVars, tgtVars, execVars>>
    /\ attempt' = 0 /\ UNCHANGED <<raised, up>>

\* an increment that ignores skip_identicals
SameIncrementAlways(skip) == 1

\* line 164: += 1 if skip_identicals else 0
SameIncrement(skip) == IF skip THEN 1 ELSE 0

\* the body of "for item in list_children(...)", lines 148-168
PlanItem ==
    /\ pc = "items"
    /\ LET item    == items[k]
           rel_src == RelSrc(src_rel, item)
           rel_tgt == FileTarget(cfg.target_root, rel_src)
           tgt     == target_lookup(rel_tgt, tcache)
           status  == DiffStatus(tgt, item.size)
       IN  IF is_vault(item)
           THEN /\ plan' = Append(plan, Act("skip_vault", rel_src, <<>>, 0, 0, ""))
                /\ stats' = [stats EXCEPT !.skipped_vault = @ + 1]
                /\ UNCHANGED <<queue, tcache>>
           ELSE IF item.folder
           THEN /\ plan' = Append(plan,
                       Act("folder", rel_src, FolderTarget(cfg.target_root, rel_src), 0, 0, ""))
                /\ stats' = [stats EXCEPT !.folders = @ + 1]
                /\ queue' = Append(queue, rel_src)
                /\ UNCHANGED tcache
           ELSE IF ~ apply_filters(item, cfg.filters)
           THEN UNCHANGED <<plan, stats, queue, tcache>>
           ELSE /\ tcache' = [p \in DOMAIN tcache \cup {rel_tgt} |->
                                 IF p = rel_tgt THEN tgt ELSE tcache[p]]
                /\ plan' = Append(plan, Act("file", rel_src, rel_tgt, item.size, item.id, status))
                /\ stats' = [stats EXCEPT
                       !.not_present = IF status = "not_present" THEN @ + 1 ELSE @,
                       !.skip_existing_same =
                           IF status = "exists_same"
                           THEN @ + SameIncrement(cfg.skip_identicals) ELSE @,
                       !.existing_diff = IF status = "exists_different" THEN @ + 1 ELSE @,
                       !.files = @ + 1,
                       !.bytes = @ + item.size]
                /\ UNCHANGED queue
    /\ k' = k + 1
    /\ pc' = IF k = Len(items) THEN "plan" ELSE "items"
    /\ UNCHANGED <<src_rel, items, nextLink, listed>>
    /\ UNCHANGED <<envVars, tgtVars, execVars>>
    /\ attempt' = 0 /\ UNCHANGED <<raised, up>>

\* gget raises (a non-404 error status, or transient answers to every attempt)
\* during a listing or a target lookup: main ends with "Error: ..."
PlanError ==
    /\ \/ pc = "list"
       \/ pc = "items" /\ NeedsLookup(items[k])
    /\ pc' = "failed"
    /\ raised' = raised \cup {[op |-> IF pc = "list" THEN "list" ELSE "lookup",
                                status |-> "other", attempts |-> 1]}
    /\ attempt' = 0
    /\ UNCHANGED <<planVars, envVars, tgtVars, execVars>>
    /\ UNCHANGED up

\* gget, lines 37-45, during a listing or a target lookup: the attempt is
\* answered 429 or 5xx; gget sleeps and tries again, and after the last attempt
\* line 45 raises
PlanTransient ==
    /\ \/ pc = "list"
       \/ pc = "items" /\ NeedsLookup(items[k])
    /\ IF attempt + 1 < RETRY
       THEN /\ attempt' = attempt + 1
            /\ UNCHANGED <<pc, raised>>
       ELSE /\ pc' = "failed"
            /\ raised' = raised \cup {[op |-> IF pc = "list" THEN "list" ELSE "lookup",
                                        status |-> "transient", attempts |-> attempt + 1]}
            /\ attempt' = 0
    /\ UNCHANGED <<planVars, envVars, tgtVars, execVars>>
    /\ UNCHANGED up

\* plan_with_diff returns; main (lines 242-255) writes the reports and, unless the
\* command is plan, calls execute
PlanReturn ==
    /\ pc = "plan"
    /\ queue = <<>>
    /\ pc' = IF cfg.cmd = "plan" THEN "exit" ELSE "exec_start"
    /\ UNCHANGED <<planVars, envVars, tgtVars, execVars>>
    /\ UNCHANGED callVars


-----------------------------------------------------------------------------
(* The resume cache, lines 171-178 *)

\* load_cache that ignores the file
load_cache_empty(path, file) == <<>>

\* load_cache: the processed_ids list read from the file; an absent or
\* unparsable file, or no path, gives the empty list
load_cache(path, file) ==
    IF ~ path \/ ~ file.exists THEN <<>>
    ELSE IF file.valid THEN file.ids ELSE <<>>

\* save_cache that never writes the file
save_cache_lost(path, c, file) == file

\* save_cache: open(path, 'w') and json.dump of the whole cache
save_cache(path, c, file) ==
    IF ~ path THEN file
    ELSE [exists |-> TRUE, valid |-> TRUE, ids |-> c]

\* no file at the cache path
NoFile == [exists |-> FALSE, valid |-> FALSE, ids |-> <<>>]

\* the file after open(path, 'w') and before the dump is written out: empty, which
\* json.load rejects
TruncatedFile == [exists |-> TRUE, valid |-> FALSE, ids |-> <<>>]

Range(q) == {q[n] : n \in DOMAIN q}

-----------------------------------------------------------------------------
(* execute, lines 180-201, one step per network call *)

ZeroSummary ==
    [files_copied |-> 0, bytes_copied |-> 0, deleted |-> 0, folders_created |-> 0,
     skipped_identical |-> 0, skipped_vault |-> 0]

Ev(op) == [run |-> run, i |-> i, op |-> op]

\* "if a['id'] in processed" that never holds
InProcessedNever(id, done) == FALSE

\* line 187: the action's id was in the cache when the run loaded it
InProcessed(id, done) == id \in done

\* the lengths the download stream of an item of the planned size may have: the
\* planned size, or less when the source shrank after planning or the
\* connection ended early.  Below the threshold the whole stream goes into one
\* PUT whatever its length, so only the planned length is kept there.
StreamLens(size) ==
    IF size < SMALL_LIMIT THEN {size}
    ELSE {size, IF size > CHUNK THEN CHUNK ELSE size \div 2}

\* proper ancestors of a path, the root excluded
Ancestors(p) == {SubSeq(p, 1, n) : n \in 1..(Len(p) - 1)}

\* names taken in the target root
RootTaken == {q[1] : q \in {f \in tgtFolders : Len(f) = 1}}
                 \cup {f.path[1] : f \in {g \in tgtFiles : Len(g.path) = 1}}

\* the name the service gives a new item called nm under conflictBehavior rename
Renamed(nm, taken) ==
    IF nm \notin taken THEN nm
    ELSE LET n == CHOOSE m \in 1..9 :
                     /\ (nm \o <<" ", Digits[m]>>) \notin taken
                     /\ \A l \in 1..(m - 1) : (nm \o <<" ", Digits[l]>>) \in taken
         IN  nm \o <<" ", Digits[n]>>

\* POST root/children {name, folder, conflictBehavior}, line 92: the folders of
\* the target after the service created a folder called nm in the drive root
CreateInRoot(nm, conflict) ==
    IF nm \notin RootTaken THEN tgtFolders \cup {<<nm>>}
    ELSE IF conflict = "rename" THEN tgtFolders \cup {<<Renamed(nm, RootTaken)>>}
    ELSE tgtFolders

\* the files of the target after the service committed content of the given
\* length at path p; replace overwrites, rename keeps the old file and adds one
Commit(p, len, id, conflict) ==
    IF conflict = "rename" /\ \E f \in tgtFiles : f.path = p
    THEN LET taken == {BaseName(f.path) : f \in {g \in tgtFiles : Parent(g.path) = Parent(p)}}
         IN  tgtFiles \cup {[path |-> Append(Parent(p), Renamed(BaseName(p), taken)),
                             size |-> len, origin |-> id]}
    ELSE {f \in tgtFiles : f.path # p} \cup {[path |-> p, size |-> len, origin |-> id]}

\* execute is entered: load_cache and the set of processed ids, lines 181-182
ExecStart ==
    /\ pc = "exec_start"
    /\ cache' = load_cache(cfg.cache_path, cacheFile)
    /\ processed' = Range(load_cache(cfg.cache_path, cacheFile))
    /\ startIds' = IF cacheFile.exists /\ cacheFile.valid THEN Range(cacheFile.ids) ELSE {}
    /\ summary' = ZeroSummary
    /\ i' = 1
    /\ pc' = "loop"
    /\ UNCHANGED <<planVars, envVars, tgtVars, cacheFile, ef, reader, start, run, log, srcGone>>
    /\ UNCHANGED callVars

\* the loop is over: return summary
ExecReturn ==
    /\ pc = "loop"
    /\ i > Len(plan)
    /\ pc' = "done"
    /\ UNCHANGED <<planVars, envVars, tgtVars, execVars>>
    /\ UNCHANGED callVars

\* line 184
ExecSkipVault ==
    /\ pc = "loop"
    /\ i <= Len(plan)
    /\ plan[i].type = "skip_vault"
    /\ summary' = [summary EXCEPT !.skipped_vault = @ + 1]
    /\ i' = i + 1
    /\ UNCHANGED <<pc, planVars, envVars, tgtVars, cacheFile, cache, processed, ef, reader,
                   start, run, startIds, log, srcGone>>
    /\ UNCHANGED callVars

\* line 185: ensure_folder(a["target"]) is entered
ExecFolder ==
    /\ pc = "loop"
    /\ i <= Len(plan)
    /\ plan[i].type = "folder"
    /\ ef' = [parts |-> plan[i].target, j |-> 1, ret |-> "folder"]
    /\ IF plan[i].target = <<>>
       THEN /\ summary' = [summary EXCEPT !.folders_created = @ + 1]
            /\ i' = i + 1
            /\ pc' = "loop"
       ELSE /\ pc' = "ef"
            /\ UNCHANGED <<summary, i>>
    /\ UNCHANGED <<planVars, envVars, tgtVars, cacheFile, cache, processed,
                   reader, start, run, startIds, log, srcGone>>
    /\ UNCHANGED callVars

\* line 187: the id is in processed, continue
ExecFileProcessed ==
    /\ pc = "loop"
    /\ i <= Len(plan)
    /\ plan[i].type = "file"
    /\ InProcessed(plan[i].id, processed)
    /\ i' = i + 1
    /\ UNCHANGED <<pc, planVars, envVars, tgtVars, cacheFile, cache, processed, summary, ef,
                   reader, start, run, startIds, log, srcGone>>
    /\ UNCHANGED callVars

\* a skip test that never holds
SkipsIdenticalNever(skip, status) == FALSE

\* line 188: skip_identicals and a.get("status") == "exists_same"
SkipsIdentical(skip, status) == skip /\ status = "exists_same"

\* lines 188-189: skipped as identical; the id is appended and save_cache follows
ExecSkipIdentical ==
    /\ pc = "loop"
    /\ i <= Len(plan)
    /\ plan[i].type = "file"
    /\ ~ InProcessed(plan[i].id, processed)
    /\ SkipsIdentical(cfg.skip_identicals, plan[i].status)
    /\ summary' = [summary EXCEPT !.skipped_identical = @ + 1]
    /\ cache' = Append(cache, plan[i].id)
    /\ log' = log \cup {Ev("skip_same")}
    /\ pc' = "save"
    /\ UNCHANGED <<planVars, envVars, tgtVars, cacheFile, processed, i, ef, reader, start,
                   run, startIds, srcGone>>
    /\ UNCHANGED callVars

\* line 190: ensure_folder(parent of the target) is entered; "." has no parts
ExecFileBegin ==
    /\ pc = "loop"
    /\ i <= Len(plan)
    /\ plan[i].type = "file"
    /\ ~ InProcessed(plan[i].id, processed)
    /\ ~ SkipsIdentical(cfg.skip_identicals, plan[i].status)
    /\ ef' = [parts |-> Parent(plan[i].target), j |-> 1, ret |-> "file"]
    /\ pc' = IF Parent(plan[i].target) = <<>> THEN "dl_meta" ELSE "ef"
    /\ UNCHANGED <<planVars, envVars, tgtVars, cacheFile, cache, processed, summary, i,
                   reader, start, run, startIds, log, srcGone>>
    /\ UNCHANGED callVars

\* the path ensure_folder is checking: "current", line 88
EfCurrent == SubSeq(ef.parts, 1, ef.j)

\* GET root:/current answers 200
TargetHas(p) == p \in tgtFolders \/ \E f \in tgtFiles : f.path = p

\* ensure_folder returned to execute: line 185 counts the folder and goes on to the
\* next action, line 191 goes on to download_stream
EfReturn(done, op) ==
    /\ log' = log \cup {Ev(op)} \cup (IF done THEN {Ev("ensured")} ELSE {})
    /\ ef' = [ef EXCEPT !.j = @ + 1]
    /\ pc' = IF ~ done THEN "ef" ELSE IF ef.ret = "folder" THEN "loop" ELSE "dl_meta"
    /\ i' = IF done /\ ef.ret = "folder" THEN i + 1 ELSE i
    /\ summary' = IF done /\ ef.ret = "folder"
                  THEN [summary EXCEPT !.folders_created = @ + 1] ELSE summary

\* lines 89-91: the GET of one path prefix answered 200, or 404
EfGet ==
    /\ pc = "ef"
    /\ IF TargetHas(EfCurrent)
       THEN EfReturn(ef.j = Len(ef.parts), "get_target")
       ELSE /\ pc' = "ef_post"
            /\ log' = log \cup {Ev("get_target")}
            /\ UNCHANGED <<ef, i, summary>>
    /\ UNCHANGED <<planVars, envVars, tgtVars, cacheFile, cache, processed, reader, start,
                   run, startIds, srcGone>>
    /\ attempt' = 0 /\ UNCHANGED <<raised, up>>

\* line 92: the POST to root/children succeeded
EfPost ==
    /\ pc = "ef_post"
    /\ tgtFolders' = CreateInRoot(ef.parts[ef.j], cfg.conflict)
    /\ EfReturn(ef.j = Len(ef.parts), "mkdir")
    /\ UNCHANGED <<planVars, envVars, tgtFiles, cacheFile, cache, processed, reader, start,
                   run, startIds, srcGone>>
    /\ attempt' = 0 /\ UNCHANGED <<raised, up>>

\* download_stream, line 95: the metadata GET; a deleted item has no download URL
DlMeta ==
    /\ pc = "dl_meta"
    /\ log' = log \cup {Ev("get_meta")}
    /\ pc' = IF plan[i].id \in srcGone THEN "aborted" ELSE "dl_get"
    /\ UNCHANGED <<planVars, envVars, tgtVars, cacheFile, cache, processed, summary, i, ef,
                   reader, start, run, startIds, srcGone>>
    /\ attempt' = 0 /\ UNCHANGED <<raised, up>>

\* download_stream, line 98: the content GET succeeded and the stream is open
DlGet ==
    /\ pc = "dl_get"
    /\ log' = log \cup {Ev("download")}
    /\ \E len \in StreamLens(plan[i].size) : reader' = len
    /\ pc' = IF plan[i].size < SMALL_LIMIT THEN "up_small" ELSE "up_session"
    /\ UNCHANGED <<planVars, envVars, tgtVars, cacheFile, cache, processed, summary, i, ef,
                   start, run, startIds, srcGone>>
    /\ attempt' = 0 /\ UNCHANGED <<raised, up>>

\* a mode argument that is "move" whatever the command
ModeAlwaysMove(cmd) == "move"

\* the mode main passes to execute, line 255
Mode(cmd) == IF cmd = "move" THEN "move" ELSE "copy"

\* the upload returned to execute, lines 198-200: the file is counted, then the
\* source is deleted in move mode, else the id is appended and save_cache follows
UploadReturned ==
    /\ summary' = [summary EXCEPT !.files_copied = @ + 1,
                                  !.bytes_copied = @ + plan[i].size]
    /\ pc' = IF Mode(cfg.cmd) = "move" THEN "delete" ELSE "save"
    /\ cache' = IF Mode(cfg.cmd) = "move" THEN cache ELSE Append(cache, plan[i].id)

\* lines 193-195 and upload_small: the stream is read to its end and one PUT of
\* the content succeeds (the PUT names no conflict behaviour and overwrites)
UpSmall ==
    /\ pc = "up_small"
    /\ log' = log \cup {Ev("put_small"), Ev("commit"), Ev("counted")}
    /\ tgtFiles' = Commit(plan[i].target, reader, plan[i].id, "replace")
    /\ tgtFolders' = tgtFolders \cup Ancestors(plan[i].target)
    /\ reader' = 0
    /\ UploadReturned
    /\ UNCHANGED <<planVars, envVars, cacheFile, processed, i, ef, start, run, startIds,
                   srcGone>>
    /\ attempt' = 0 /\ UNCHANGED <<raised, up>>

\* upload_large, lines 106-107: the session is created; with an empty stream the
\* loop body never runs and upload_large returns
UpSession ==
    /\ pc = "up_session"
    /\ start' = 0
    /\ up' = [len |-> reader, calls |-> <<>>]
    /\ IF reader = 0
       THEN /\ log' = log \cup {Ev("create_session"), Ev("counted")}
            /\ UploadReturned
       ELSE /\ log' = log \cup {Ev("create_session")}
            /\ pc' = "up_chunk"
            /\ UNCHANGED <<summary, cache>>
    /\ UNCHANGED <<planVars, envVars, tgtVars, cacheFile, processed, i, ef, reader, run,
                   startIds, srcGone>>
    /\ attempt' = 0 /\ UNCHANGED raised

\* a running offset that is set to the last byte sent
NextStartOverlap(end) == end

\* line 113: start = end + 1
NextStart(end) == end + 1

\* upload_large, lines 108-113: one chunk is PUT.  The service finalizes when it
\* has the last byte of the declared size (200/201: return), else answers 202
\* and the loop goes on; the loop also ends when the stream has no more chunks
UpChunk ==
    /\ pc = "up_chunk"
    /\ LET L    == Min(CHUNK, reader)
           end  == start + L - 1
           fin  == end + 1 >= plan[i].size
           left == reader - L
       IN  /\ up' = [up EXCEPT !.calls = Append(@,
                      [from |-> start, to |-> end, total |-> plan[i].size,
                       answer |-> IF fin THEN "Finalized" ELSE "Continue"])]
           /\ IF fin
              THEN /\ log' = log \cup {Ev("put_chunk"), Ev("commit"), Ev("counted")}
                   /\ tgtFiles' = Commit(plan[i].target, plan[i].size, plan[i].id, cfg.conflict)
                   /\ tgtFolders' = tgtFolders \cup Ancestors(plan[i].target)
                   /\ reader' = left
                   /\ start' = start
                   /\ UploadReturned
              ELSE /\ start' = NextStart(end)
                   /\ reader' = left
                   /\ UNCHANGED tgtVars
                   /\ IF left = 0
                      THEN /\ log' = log \cup {Ev("put_chunk"), Ev("counted")}
                           /\ UploadReturned
                      ELSE /\ log' = log \cup {Ev("put_chunk")}
                           /\ UNCHANGED <<pc, summary, cache>>
    /\ UNCHANGED <<planVars, envVars, cacheFile, processed, i, ef, run, startIds, srcGone>>
    /\ attempt' = 0 /\ UNCHANGED raised

\* line 199: gdelete succeeded; line 200: the id is appended and save_cache follows
Delete ==
    /\ pc = "delete"
    /\ log' = log \cup {Ev("delete")}
    /\ IF plan[i].id \in srcGone
       THEN /\ pc' = "aborted"
            /\ UNCHANGED <<srcGone, summary, cache>>
       ELSE /\ srcGone' = srcGone \cup {plan[i].id}
            /\ summary' = [summary EXCEPT !.deleted = @ + 1]
            /\ cache' = Append(cache, plan[i].id)
            /\ pc' = "save"
    /\ UNCHANGED <<planVars, envVars, tgtVars, cacheFile, processed, i, ef, reader, start,
                   run, startIds>>
    /\ attempt' = 0 /\ UNCHANGED <<raised, up>>

\* save_cache, lines 176-178, run to its end; the loop goes on to the next action
SaveCache ==
    /\ pc = "save"
    /\ cacheFile' = save_cache(cfg.cache_path, cache, cacheFile)
    /\ log' = log \cup {Ev("saved")}
    /\ i' = i + 1
    /\ pc' = "loop"
    /\ UNCHANGED <<planVars, envVars, tgtVars, cache, processed, summary, ef, reader, start,
                   run, startIds, srcGone>>
    /\ UNCHANGED callVars

\* the call each position is about to issue
OpAt(p) ==
    CASE p = "ef"         -> "get_target"
      [] p = "ef_post"    -> "mkdir"
      [] p = "dl_meta"    -> "get_meta"
      [] p = "dl_get"     -> "download"
      [] p = "up_small"   -> "put_small"
      [] p = "up_session" -> "create_session"
      [] p = "up_chunk"   -> "put_chunk"
      [] p = "delete"     -> "delete"

NetworkPcs == {"ef", "ef_post", "dl_meta", "dl_get", "up_small", "up_session",
               "up_chunk", "delete"}

\* a call of execute ends in an error status (gget after its retries, gpost, gput,
\* gdelete, raise_for_status or upload_large's else branch): the exception leaves
\* execute
ServiceError ==
    /\ pc \in NetworkPcs
    /\ log' = log \cup {Ev(OpAt(pc))}
    /\ pc' = "aborted"
    /\ raised' = raised \cup {[op |-> OpAt(pc), status |-> "other", attempts |-> 1]}
    /\ attempt' = 0
    /\ UNCHANGED <<planVars, envVars, tgtVars, cacheFile, cache, processed, summary, i, ef,
                   reader, start, run, startIds, srcGone>>
    /\ UNCHANGED up

\* the calls of execute that go through gget: ensure_folder's GET (line 90) and
\* download_stream's metadata GET (line 95)
GgetPcs == {"ef", "dl_meta"}

\* an attempt of a call of execute is answered 429 or 5xx.  gget (lines 39-41)
\* sleeps and tries again until its attempts are used up, then line 45 raises;
\* gpost, gput and gdelete (lines 51, 58, 65), raise_for_status (line 98) and
\* upload_large (line 114) raise at once
Transient ==
    /\ pc \in NetworkPcs
    /\ log' = log \cup {Ev(OpAt(pc))}
    /\ IF pc \in GgetPcs /\ attempt + 1 < RETRY
       THEN /\ attempt' = attempt + 1
            /\ UNCHANGED <<pc, raised>>
       ELSE /\ pc' = "aborted"
            /\ raised' = raised \cup {[op |-> OpAt(pc), status |-> "transient",
                                        attempts |-> attempt + 1]}
            /\ attempt' = 0
    /\ UNCHANGED <<planVars, envVars, tgtVars, cacheFile, cache, processed, summary, i, ef,
                   reader, start, run, startIds, srcGone>>
    /\ UNCHANGED up

\* execute is called again with the same plan and the same cache path
Rerun ==
    /\ pc \in {"done", "aborted", "interrupted"}
    /\ run < MaxRuns
    /\ run' = run + 1
    /\ pc' = "exec_start"
    /\ UNCHANGED <<planVars, envVars, tgtVars, cacheFile, cache, processed, summary, i, ef,
                   reader, start, startIds, log, srcGone>>
    /\ UNCHANGED callVars

\* save_cache: open(path, 'w') has truncated the file
SaveTruncate ==
    /\ pc = "save"
    /\ cacheFile' = IF cfg.cache_path THEN TruncatedFile ELSE cacheFile
    /\ pc' = "save_write"
    /\ UNCHANGED <<planVars, envVars, tgtVars, cache, processed, summary, i, ef, reader,
                   start, run, startIds, log, srcGone>>
    /\ UNCHANGED callVars

\* save_cache: the dump is written and the file closed
SaveWrite ==
    /\ pc = "save_write"
    /\ cacheFile' = save_cache(cfg.cache_path, cache, cacheFile)
    /\ log' = log \cup {Ev("saved")}
    /\ i' = i + 1
    /\ pc' = "loop"
    /\ UNCHANGED <<planVars, envVars, tgtVars, cache, processed, summary, ef, reader, start,
                   run, startIds, srcGone>>
    /\ UNCHANGED callVars

ExecPcs == NetworkPcs \cup {"exec_start", "loop", "save", "save_write"}

\* the process is interrupted (KeyboardInterrupt, kill) while execute runs
Interrupt ==
    /\ pc \in ExecPcs
    /\ pc' = "interrupted"
    /\ UNCHANGED <<planVars, envVars, tgtVars, execVars>>
    /\ UNCHANGED callVars

-----------------------------------------------------------------------------
(* Inputs: source trees, target contents and command lines *)

NoFilters == [exts |-> {}, modified_after |-> {}, min_bytes |-> {}, max_bytes |-> {}]

\* --exts .txt --modified-after <day 10> --min-mb/--max-mb giving 1 byte .. 4 MiB
SomeFilters ==
    [exts |-> {<<".","t","x","t">>}, modified_after |-> {10},
     min_bytes |-> {1}, max_bytes |-> {SMALL_LIMIT}]

Item(id, parent, name, folder, special, size, lm) ==
    [id |-> id, parent |-> parent, name |-> name, folder |-> folder,
     special |-> special, size |-> size, lm |-> lm]

LmOk(t) == [kind |-> "ok", t |-> t]
LmNone  == [kind |-> "none", t |-> 0]
LmBad   == [kind |-> "bad", t |-> 0]

VaultNames == <<N_Vault, N_personal, N_VAULT, N_Personal, N_vault, N_PERSONAL>>
GenSizes   == <<10 * 1024, SMALL_LIMIT, 33 * MiB>>
GenLm      == <<LmOk(10), LmOk(3), LmBad, LmNone>>
Kinds      == {"file", "folder", "vault_name", "vault_tag"}

\* item n of a generated tree
GenItem(n, parent, kind) ==
    Item(n, parent,
         CASE kind = "file"       -> <<"f", Digits[n], ".">> \o
                                     (IF n % 2 = 1 THEN <<"t","x","t">> ELSE <<"B","I","N">>)
           [] kind = "folder"     -> <<"d", Digits[n]>>
           [] kind = "vault_name" -> VaultNames[((n - 1) % 6) + 1]
           [] kind = "vault_tag"  -> <<"s", Digits[n]>>,
         kind # "file",
         IF kind = "vault_tag" THEN "vault"
         ELSE IF kind = "folder" /\ n % 2 = 0 THEN "documents" ELSE "none",
         IF kind = "file" THEN GenSizes[((n - 1) % 3) + 1] ELSE 0,
         GenLm[((n - 1) % 4) + 1])

\* a tree of sz items: an item's parent is the root (0) or an earlier item
TreeOf(sz, par, kind) ==
    [items  |-> {GenItem(n, par[n], kind[n]) : n \in 1..sz},
     vaults |-> {n \in 1..sz : kind[n] \in {"vault_name", "vault_tag"}}]

\* the parent of every item is a folder or a vault
WellFormed(sz, par, kind) ==
    \A n \in 1..sz : par[n] < n /\ (par[n] # 0 => kind[par[n]] # "file")

\* the tree of the scenarios of the specification (docs/a.txt, a vault with a
\* secret in it), with a nested file of 33 MiB and a top-level file of one chunk
FixtureTree ==
    [items |-> {
        Item(1, 0, N_docs, TRUE, "none", 0, LmOk(10)),
        Item(2, 1, N_a_txt, FALSE, "none", 10 * 1024, LmOk(10)),
        Item(3, 1, N_Personal, TRUE, "vault", 0, LmNone),
        Item(4, 3, N_secret, FALSE, "none", 10 * 1024, LmOk(10)),
        Item(5, 1, N_sub, TRUE, "none", 0, LmOk(10)),
        Item(6, 5, N_big_bin, FALSE, "none", 33 * MiB, LmOk(10)),
        Item(7, 0, N_mid_bin, FALSE, "none", CHUNK, LmOk(10)) },
     vaults |-> {3}]

VaultPaths(S, V) == {PathOf(S, it) : it \in {x \in S : x.id \in V}}

\* source roots: the drive root, or a folder that is not in a vault
SourceRoots(t) ==
    {<<>>} \cup
    {PathOf(t.items, it) : it \in
        {x \in t.items : x.folder /\
            \A v \in VaultPaths(t.items, t.vaults) : ~ AtOrBeneath(PathOf(t.items, x), v)}}

\* a target that already holds every source file at its rebased path, with the
\* same size for odd ids and another size for even ids
MirrorFiles(t, target_root) ==
    {[path |-> FileTarget(target_root, PathOf(t.items, it)),
      size |-> IF it.id % 2 = 1 THEN it.size ELSE it.size + 1,
      origin |-> 0] : it \in {x \in t.items : ~ x.folder}}

FoldersOf(files) == UNION {Ancestors(f.path) : f \in files}

Config(cmd, skip, cpath, conflict, sroot, troot, filters) ==
    [cmd |-> cmd, skip_identicals |-> skip, cache_path |-> cpath, conflict |-> conflict,
     source_root |-> sroot, target_root |-> troot, filters |-> filters]

\* how a plan run is configured: skip_identicals, target root, filters, and
\* whether the target already mirrors the source
PlanProfiles ==
    { [skip |-> FALSE, troot |-> <<>>,         fl |-> NoFilters,   mirror |-> FALSE],
      [skip |-> TRUE,  troot |-> <<>>,         fl |-> NoFilters,   mirror |-> TRUE],
      [skip |-> FALSE, troot |-> <<N_backup>>, fl |-> SomeFilters, mirror |-> TRUE],
      [skip |-> TRUE,  troot |-> <<N_backup>>, fl |-> SomeFilters, mirror |-> FALSE] }

\* copy and move runs over the fixture
ExecScenarios ==
    { sc \in
        { [tree |-> FixtureTree, files |-> tf, cacheFile |-> cf,
           cfg |-> Config(cmd, skip, cpath, conflict, <<>>, <<>>, NoFilters)] :
            cmd \in {"copy", "move"},
            skip \in BOOLEAN,
            cpath \in BOOLEAN,
            conflict \in {"rename", "replace"},
            cf \in {NoFile, TruncatedFile},
            tf \in {{}, {[path |-> <<N_docs, N_a_txt>>, size |-> 10 * 1024, origin |-> 0]}} }
      : sc.cfg.cache_path \/ sc.cacheFile = NoFile }

InitFrom(sc) ==
    /\ src = sc.tree.items
    /\ vaults = sc.tree.vaults
    /\ cfg = sc.cfg
    /\ tgtFiles = sc.files
    /\ tgtFolders = FoldersOf(sc.files)
    /\ srcGone = {}
    /\ pc = "plan"
    /\ queue = <<sc.cfg.source_root>>
    /\ src_rel = <<>>
    /\ items = <<>>
    /\ nextLink = 0
    /\ k = 1
    /\ plan = <<>>
    /\ stats = ZeroStats
    /\ tcache = <<>>
    /\ listed = {}
    /\ cacheFile = sc.cacheFile
    /\ cache = <<>>
    /\ processed = {}
    /\ summary = ZeroSummary
    /\ i = 1
    /\ ef = [parts |-> <<>>, j |-> 1, ret |-> "folder"]
    /\ reader = 0
    /\ start = 0
    /\ run = 1
    /\ startIds = {}
    /\ log = {}
    /\ attempt = 0
    /\ raised = {}
    /\ up = [len |-> 0, calls |-> <<>>]

\* the plan command over every generated tree
InitPlan ==
    \E sz \in 0..MaxNodes :
      \E par \in [1..sz -> 0..MaxNodes], kind \in [1..sz -> Kinds] :
        /\ WellFormed(sz, par, kind)
        /\ \E pr \in PlanProfiles, sroot \in SourceRoots(TreeOf(sz, par, kind)) :
              InitFrom([tree |-> TreeOf(sz, par, kind),
                        cacheFile |-> NoFile,
                        files |-> IF pr.mirror
                                  THEN MirrorFiles(TreeOf(sz, par, kind), pr.troot)
                                  ELSE {},
                        cfg |-> Config("plan", pr.skip, FALSE, "rename", sroot,
                                       pr.troot, pr.fl)])

\* the copy and move commands over the fixture
InitExec == \E sc \in ExecScenarios : InitFrom(sc)

Init == InitPlan \/ InitExec

N_A_TXT == <<"A",".","T","X","T">>
N_txt   == <<"t","x","t">>
X_txt   == <<".","t","x","t">>
X_TXT   == <<".","T","X","T">>
X_pdf   == <<".","p","d","f">>

\* the plan command over a folder and one file whose name, size and
\* modification time are drawn around the limits of the filters, with each
\* filter absent or present
InitFilters ==
    \E nm \in {N_a_txt, N_A_TXT, N_mid_bin, N_txt},
       sz \in {0, 1023, 1024, 2048, 2049},
       lm \in {LmNone, LmBad, LmOk(9), LmOk(10), LmOk(11)},
       par \in {0, 1},
       ex \in {{}, {X_txt}, {X_TXT, X_pdf}},
       ma \in {{}, {10}},
       mn \in {{}, {0}, {1024}},
       mx \in {{}, {2048}} :
        InitFrom([tree |-> [items |-> {Item(1, 0, N_docs, TRUE, "none", 0, LmOk(9)),
                                       Item(2, par, nm, FALSE, "none", sz, lm)},
                            vaults |-> {}],
                  cacheFile |-> NoFile,
                  files |-> {},
                  cfg |-> Config("plan", FALSE, FALSE, "rename", <<>>, <<>>,
                                 [exts |-> ex, modified_after |-> ma,
                                  min_bytes |-> mn, max_bytes |-> mx])])

Planning == PlanPop \/ ListPage \/ PlanItem \/ PlanError \/ PlanReturn

Executing ==
    \/ ExecStart \/ ExecReturn \/ ExecSkipVault \/ ExecFolder \/ ExecFileProcessed
    \/ ExecSkipIdentical \/ ExecFileBegin \/ EfGet \/ EfPost \/ DlMeta \/ DlGet
    \/ UpSmall \/ UpSession \/ UpChunk \/ Delete \/ ServiceError \/ Rerun

Next == Planning \/ Executing \/ SaveCache

Spec == Init /\ [][Next]_vars

\* the same program, with save_cache in its two steps and interruption
NextCrash == Planning \/ Executing \/ SaveTruncate \/ SaveWrite \/ Interrupt

SpecCrash == Init /\ [][NextCrash]_vars

\* the same program against a service that also answers attempts with 429 or 5xx
NextRetry == Next \/ PlanTransient \/ Transient

SpecRetry == Init /\ [][NextRetry]_vars

\* plan_with_diff for the plan command over the filter inputs
SpecFilters == InitFilters /\ [][Planning]_vars

-----------------------------------------------------------------------------
(* Definitions used by the properties *)

FileActs == {n \in 1..Len(plan) : plan[n].type = "file"}

Logged(r, n, op) == [run |-> r, i |-> n, op |-> op] \in log

\* the ids a load of the cache file yields
CacheIds == Range(load_cache(TRUE, cacheFile))

\* the path ensure_folder is called with on behalf of action n
EnsurePath(n) == IF plan[n].type = "folder" THEN plan[n].target ELSE Parent(plan[n].target)

\* event d happened in an earlier action, or an earlier run, than event e
Earlier(d, e) == d.run < e.run \/ (d.run = e.run /\ d.i < e.i)

PlanningPcs == {"plan", "list", "items", "failed"}

WriteOrDownloadOps ==
    {"mkdir", "put_small", "create_session", "put_chunk", "delete", "get_meta", "download"}

-----------------------------------------------------------------------------
(* Properties *)

\* C1: in move mode the source delete of an item is issued only after that
\* item's upload was committed on the target in the same action; an upload
\* session that was never finalized is followed by no delete.
C1_DeleteOnlyAfterCommit ==
    \A e \in log : e.op = "delete" => Logged(e.run, e.i, "commit")

\* C2: with a cache path, the id of every file action a run completed is in the
\* cache file from then on, and a later run of the same plan issues no write and
\* no download for that action.
C2_CompletedNotRedone ==
    cfg.cache_path =>
        \A e \in log : e.op = "saved" =>
            /\ plan[e.i].id \in CacheIds
            /\ \A f \in log : (f.i = e.i /\ f.run > e.run) => f.op \notin WriteOrDownloadOps

\* C2 witness: a second run went past a file action the first run completed.
C2_Witness ==
    /\ cfg.cache_path
    /\ run = 2
    /\ pc = "done"
    /\ \E e \in log : e.op = "saved" /\ e.run = 1 /\ Logged(1, e.i, "commit")

\* C3: every id in the cache file belongs to an action that was skipped as
\* identical, or whose upload was committed and, in move mode, whose source was
\* deleted.
C3_CachedOnlyAfterEffects ==
    \A n \in FileActs :
        plan[n].id \in CacheIds =>
            \E e \in log :
                /\ e.i = n
                /\ \/ e.op = "skip_same"
                   \/ /\ e.op = "commit"
                      /\ cfg.cmd = "move" => plan[n].id \in srcGone

\* C4: a chunked transfer is counted as copied only if the service answered one
\* of its chunk calls with Finalized.
C4_ChunkedCountedOnlyIfFinalized ==
    \A e \in log :
        (e.op = "counted" /\ plan[e.i].size >= SMALL_LIMIT) => Logged(e.run, e.i, "commit")

\* the file actions before action n
FileActsBefore(n) == {m \in FileActs : m < n}

\* C5: with a cache path, before every network call of an action and when a run
\* aborts inside an action, the cache file holds exactly the ids it held when
\* the run started plus the ids of the file actions before the current one, and
\* not the id of the current file action.
C5_AbortKeepsCache ==
    (cfg.cache_path /\ pc \in NetworkPcs \cup {"aborted"}) =>
        /\ CacheIds = startIds \cup {plan[m].id : m \in FileActsBefore(i)}
        /\ plan[i].type = "file" => plan[i].id \notin CacheIds

\* C5 witness: a run aborted inside a file action after it completed another.
C5_Witness ==
    /\ cfg.cache_path
    /\ pc = "aborted"
    /\ plan[i].type = "file"
    /\ \E e \in log : e.run = run /\ e.op = "saved"

\* C6: after an interruption at any point, loading the cache file yields every
\* id an earlier completed save_cache had written.
C6_InterruptedCacheConsistent ==
    (cfg.cache_path /\ pc = "interrupted") =>
        \A e \in log : e.op = "saved" => plan[e.i].id \in CacheIds

\* C7: over all runs, the content of each source item is committed to the target
\* at most once, and the target holds at most one copy of it.
C7_CommittedAtMostOnce ==
    \A n \in FileActs :
        /\ Cardinality({e \in log : e.i = n /\ e.op = "commit"}) <= 1
        /\ Cardinality({f \in tgtFiles : f.origin = plan[n].id}) <= 1

\* C8: when a content write (small upload or upload-session creation) is about
\* to be issued for a target path, every ancestor folder of the path exists on
\* the target.
C8_AncestorsExistAtWrite ==
    pc \in {"up_small", "up_session"} => Ancestors(plan[i].target) \subseteq tgtFolders

\* C9: once ensure_folder has returned for a path, no later call of it for the
\* same path issues a folder creation.
C9_EnsureFolderIdempotent ==
    \A e \in log :
        e.op = "mkdir" =>
            ~ \E d \in log :
                d.op = "ensured" /\ Earlier(d, e) /\ EnsurePath(d.i) = EnsurePath(e.i)

\* a vault the walk comes across: beneath the source root and in no other vault
VaultMet(v) ==
    /\ AtOrBeneath(v, cfg.source_root)
    /\ v # cfg.source_root
    /\ \A w \in VaultPaths(src, vaults) : w = v \/ ~ AtOrBeneath(v, w)

SkipsOf(v) == {n \in 1..Len(plan) : plan[n].type = "skip_vault" /\ plan[n].source = v}

WriteOps == {"mkdir", "put_small", "create_session", "put_chunk", "delete"}

\* C11: a step of a plan run, and a step of the planning phase of any run,
\* changes neither account nor the cache file and issues no write call; a step
\* of a copy run deletes no source item and issues no delete call (a delete is
\* issued in move mode only).
C11_ModeBoundsEffects ==
    [][ /\ (cfg.cmd = "plan" \/ pc \in PlanningPcs) =>
              /\ UNCHANGED <<tgtFolders, tgtFiles, srcGone, cacheFile>>
              /\ \A e \in log' : e.op \notin WriteOps \cup {"saved"}
        /\ cfg.cmd # "move" =>
              /\ srcGone' = srcGone
              /\ \A e \in log' : e.op # "delete" ]_vars

\* C11 witness: a plan run ended with a file that a copy would have to transfer.
C11_Witness ==
    /\ cfg.cmd = "plan"
    /\ pc = "exit"
    /\ \E n \in FileActs : plan[n].status = "not_present"
    /\ \E n \in 1..Len(plan) : plan[n].type = "folder"

\* C12: a transient answer (429, 5xx) is surfaced as an error only after the
\* call has made the full number of attempts, whatever the call is; no call
\* makes more attempts than that, and any other error status is surfaced by
\* the attempt that received it.
C12_TransientRetried ==
    \A e \in raised :
        /\ e.attempts <= RETRY
        /\ e.status = "transient" => e.attempts = RETRY
        /\ e.status = "other" => e.attempts = 1

\* the number of chunks of a stream of S bytes: ceil(S / CHUNK)
ChunksOf(S) == (S + CHUNK - 1) \div CHUNK

\* the current action is inside, or has just returned from, an upload_large call
\* that was given the whole content of the file
InFullUpload ==
    /\ pc \in {"up_chunk", "delete", "save"}
    /\ Logged(run, i, "create_session")
    /\ up.len = plan[i].size

\* C13: when upload_large is given the whole content of a file of S >= 4 MiB
\* in 32 MiB chunks, its chunk calls carry byte ranges that start at 0, are
\* contiguous and declare S as the total; every call before the last byte is
\* answered Continue, and when it returns it has issued exactly ceil(S / 32 MiB)
\* calls, the last ending at S - 1 and answered Finalized.
C13_ChunkRanges ==
    InFullUpload =>
        LET S == plan[i].size
            c == up.calls
        IN  /\ S >= SMALL_LIMIT
            /\ \A n \in 1..Len(c) :
                   /\ c[n].from = (IF n = 1 THEN 0 ELSE c[n - 1].to + 1)
                   /\ c[n].from <= c[n].to
                   /\ c[n].to - c[n].from + 1 <= CHUNK
                   /\ c[n].total = S
                   /\ c[n].answer = (IF c[n].to = S - 1 THEN "Finalized" ELSE "Continue")
                   /\ n < Len(c) => c[n].answer = "Continue"
            /\ pc = "up_chunk" => Len(c) < ChunksOf(S) /\ start = Len(c) * CHUNK
            /\ pc \in {"delete", "save"} =>
                   /\ Len(c) = ChunksOf(S)
                   /\ c[Len(c)].to = S - 1
                   /\ c[Len(c)].answer = "Finalized"

\* C13 witness: a file of 33 MiB was uploaded in two chunk calls.
C13_Witness ==
    /\ InFullUpload
    /\ pc \in {"delete", "save"}
    /\ plan[i].size = 33 * MiB
    /\ Len(up.calls) = 2

\* the source items the walk from the source root reaches: strictly beneath the
\* root, with no vault strictly between the root and the item
Reached ==
    {it \in src :
        /\ AtOrBeneath(PathOf(src, it), cfg.source_root)
        /\ PathOf(src, it) # cfg.source_root
        /\ \A a \in src :
               (/\ a # it
                /\ AtOrBeneath(PathOf(src, it), PathOf(src, a))
                /\ AtOrBeneath(PathOf(src, a), cfg.source_root)
                /\ PathOf(src, a) # cfg.source_root) => ~ is_vault(a)}

\* the reached items that get an action: vaults, folders and filter-passing files
Planned == {it \in Reached : is_vault(it) \/ it.folder \/ apply_filters(it, cfg.filters)}

\* the type of the action item it gets
ActType(it) ==
    IF is_vault(it) THEN "skip_vault" ELSE IF it.folder THEN "folder" ELSE "file"

ActsOf(it) == {n \in 1..Len(plan) : plan[n].source = PathOf(src, it)}

PlanExact ==
    /\ Len(plan) = Cardinality(Planned)
    /\ \A it \in Planned :
           /\ Cardinality(ActsOf(it)) = 1
           /\ \A n \in ActsOf(it) :
                  /\ plan[n].type = ActType(it)
                  /\ plan[n].type = "file" => plan[n].id = it.id
    /\ src = {} => plan = <<>> /\ stats = ZeroStats

\* an upper bound on the steps plan_with_diff has left: every folder of the
\* source and the root are popped at most once, and one directory takes at most
\* a page and an item step per source item, plus two
WalkLeft ==
    LET n    == Cardinality(src)
        pops == 1 + Cardinality({it \in src : it.folder}) - Cardinality(listed)
    IN  CASE pc = "plan"  -> pops * (2 * n + 3) + 1
          [] pc = "list"  -> pops * (2 * n + 3) + 2 + n + (n + 2 - nextLink)
          [] pc = "items" -> pops * (2 * n + 3) + 2 + Len(items) - k
          [] OTHER        -> 0

\* a step of plan_with_diff lowers WalkLeft
WalkStep == pc \in {"plan", "list", "items"} => WalkLeft' < WalkLeft

\* C14: plan_with_diff terminates: every step of it lowers WalkLeft, which never
\* goes below zero.  No source path is ever in the plan twice and no two file
\* actions share an id; when it returns the plan holds exactly one action for
\* every folder and every filter-passing file reached from the source root
\* without passing through a vault, whatever page of a listing the item was
\* on, and an empty tree gives an empty plan with all-zero stats.
C14_PlanComplete ==
    /\ [][WalkStep]_vars
    /\ [](WalkLeft >= 0)
    /\ [](\A m, n \in 1..Len(plan) :
             m # n => /\ plan[m].source # plan[n].source
                      /\ (plan[m].type = "file" /\ plan[n].type = "file") =>
                             plan[m].id # plan[n].id)
    /\ [](pc \in {"exit", "exec_start"} => PlanExact)

\* C14 witness: a plan was returned for a source root whose listing took more
\* than one page, every child of it ending up in the plan.
C14_Witness ==
    /\ pc = "exit"
    /\ cfg.source_root = <<>>
    /\ Cardinality({it \in src : it.parent = 0}) > PageSize
    /\ Len(plan) > PageSize
    /\ FileActs # {}

\* the file actions execute has to skip as identical
SameActs == {n \in FileActs : cfg.skip_identicals /\ plan[n].status = "exists_same"}

\* the current run has gone past action n
PastAction(n) == pc \in ExecPcs \cup {"done", "aborted"} /\ pc # "exec_start" /\ i > n

\* C15: with skip_identicals set, no call of any kind (download, upload, folder
\* creation, delete, lookup) is ever issued for a file action with status
\* exists_same; a run that goes past such an action whose id was not in the
\* cache it loaded has skipped it, skipped_identical counts exactly the actions
\* the run skipped, and with a cache path the id is in the cache file as soon
\* as the run is at the next action.
C15_IdenticalSkipped ==
    /\ \A e \in log : e.i \in SameActs => e.op \in {"skip_same", "saved"}
    /\ \A n \in SameActs :
           (PastAction(n) /\ plan[n].id \notin processed) =>
               /\ Logged(run, n, "skip_same")
               /\ cfg.cache_path => plan[n].id \in CacheIds
    /\ pc # "exec_start" =>
           summary.skipped_identical =
               Cardinality({e \in log : e.run = run /\ e.op = "skip_same"})

\* C15 witness: a run with a cache path skipped docs/a.txt as identical and
\* went on to transfer another file.
C15_Witness ==
    /\ cfg.cache_path
    /\ pc = "done"
    /\ \E n \in SameActs : Logged(run, n, "skip_same") /\ plan[n].id \in CacheIds
    /\ \E e \in log : e.run = run /\ e.op = "commit"

\* the ids a cache file holds: those of its processed_ids list when it parses
FileIds(file) == IF file.exists /\ file.valid THEN Range(file.ids) ELSE {}

\* no step takes an id out of the cache file
CacheGrows == FileIds(cacheFile) \subseteq FileIds(cacheFile')

\* C16: over all runs on the same cache path, completed or aborted by an error,
\* every step leaves in the cache file every id it held before: each save
\* writes a superset of the ids of the file, and nothing else touches the file.
C16_CacheOnlyGrows == [][CacheGrows]_vars

\* C16 witness: a second run on the same cache path saved after the first run
\* had saved.
C16_Witness ==
    /\ cfg.cache_path
    /\ \E e, f \in log : e.op = "saved" /\ e.run = 1 /\ f.op = "saved" /\ f.run = 2
    /\ Cardinality(FileIds(cacheFile)) >= 2

RECURSIVE SumSizes(_)
\* the sum of the sizes of the actions with the given indices
SumSizes(ns) ==
    IF ns = {} THEN 0
    ELSE LET n == CHOOSE m \in ns : TRUE
         IN  plan[n].size + SumSizes(ns \ {n})

\* the number of actions of a type, and of file actions of a status
CountType(t) == Cardinality({n \in 1..Len(plan) : plan[n].type = t})
CountStatus(st) == Cardinality({n \in FileActs : plan[n].status = st})

\* C17: when plan_with_diff returns, files is the number of file actions and
\* bytes the sum of their sizes (exists_same ones included); not_present and
\* existing_diff are the numbers of file actions with those statuses;
\* skip_existing_same is the number of exists_same file actions when
\* skip_identicals is set and 0 otherwise; folders and skipped_vault are the
\* numbers of folder and skip_vault actions.  A file the filters reject has
\* no action, so it is in no counter.
C17_StatsMatchPlan ==
    pc \in {"exit", "exec_start"} =>
        /\ stats.files = CountType("file")
        /\ stats.bytes = SumSizes(FileActs)
        /\ stats.not_present = CountStatus("not_present")
        /\ stats.existing_diff = CountStatus("exists_different")
        /\ stats.skip_existing_same =
               (IF cfg.skip_identicals THEN CountStatus("exists_same") ELSE 0)
        /\ stats.folders = CountType("folder")
        /\ stats.skipped_vault = CountType("skip_vault")

\* C17 witness: a plan without skip_identicals was returned that holds a file
\* identical on the target, and the filters rejected another reached file.
C17_Witness ==
    /\ pc = "exit"
    /\ ~ cfg.skip_identicals
    /\ CountStatus("exists_same") >= 1
    /\ stats.bytes > 0
    /\ \E it \in Reached : ~ is_vault(it) /\ ~ apply_filters(it, cfg.filters)

\* the extension filter is off, or the lower-cased name ends with one of the
\* lower-cased extensions
ExtOk(it, f) == f.exts = {} \/ \E e \in f.exts : EndsWith(Lower(it.name), Lower(e))

\* the date filter is off, the item has no usable timestamp, or the timestamp
\* is not earlier than the minimum
DateOk(it, f) ==
    \/ f.modified_after = {}
    \/ it.lm.kind \in {"none", "bad"}
    \/ \A m \in f.modified_after : it.lm.t >= m

\* the size is within the bounds that are set, both inclusive
SizeOk(it, f) ==
    /\ \A m \in f.min_bytes : it.size >= m
    /\ \A m \in f.max_bytes : it.size <= m

InPlan(it) == \E n \in 1..Len(plan) : plan[n].source = PathOf(src, it)

\* C18: when plan_with_diff returns, a reached non-vault file is in the plan
\* if and only if it passes the extension, date and size filters that are set
\* (extension compared case-insensitively; a timestamp equal to the minimum,
\* absent or unparsable passes; size bounds inclusive); with no filter set
\* every file is in the plan, and every reached non-vault folder is in the
\* plan whatever the filters.
C18_FilteredIffPasses ==
    pc = "exit" =>
        \A it \in Reached :
            ~ is_vault(it) =>
                /\ it.folder => InPlan(it)
                /\ ~ it.folder =>
                       (InPlan(it) <=> (/\ ExtOk(it, cfg.filters)
                                        /\ DateOk(it, cfg.filters)
                                        /\ SizeOk(it, cfg.filters)))
                /\ cfg.filters = NoFilters => InPlan(it)

\* C18 witness: a file at the limits of all three filters (upper-case name,
\* timestamp equal to the minimum, size equal to the maximum) is in a plan.
C18_Witness ==
    /\ pc = "exit"
    /\ cfg.filters.exts = {X_txt}
    /\ cfg.filters.modified_after = {10}
    /\ cfg.filters.max_bytes = {2048}
    /\ \E it \in src :
           /\ it.name = N_A_TXT /\ it.lm = LmOk(10) /\ it.size = 2048
           /\ InPlan(it)

\* C19: with conflict behaviour rename, a target file that was there when the
\* plan was built (the action's status is not not_present) is never
\* overwritten by a transfer: it is still at its path with its own content.
C19_RenameNeverOverwrites ==
    (cfg.conflict = "rename" /\ pc \notin PlanningPcs) =>
        \A n \in FileActs :
            plan[n].status # "not_present" =>
                \E f \in tgtFiles : f.path = plan[n].target /\ f.origin = 0

\* C20: for every folder action and every file action whose source lies
\* directly inside that folder, the folder action's target is the parent
\* directory of the file action's target.
C20_SameRebase ==
    \A m \in 1..Len(plan) : \A n \in FileActs :
        (plan[m].type = "folder" /\ Parent(plan[n].source) = plan[m].source) =>
            plan[m].target = Parent(plan[n].target)
=============================================================================
